---------------------------- MODULE Spec2Model ----------------------------
(***************************************************************************)
(* Hex-grid province generator (generate_country_provinces.py) and the     *)
(* terrain assigner it imports (assign_terrain_types.py).                  *)
(*                                                                         *)
(* Numbers.  The program computes in floating point; the model computes in *)
(* fixed point.  One geographic unit is 1e-5 degree and one pixel unit is  *)
(* 1/4000 pixel, so that the program's scale of 0.04 degree per pixel      *)
(* (LAT_SPAN / WORLD_HEIGHT = LNG_SPAN / WORLD_WIDTH) is one geographic    *)
(* unit per pixel unit.  round(v, 4) of a coordinate is rounding to a      *)
(* multiple of 10 units.  sqrt(3) is the rational 433/250 = 1.732, which   *)
(* keeps ROW_SPACING / 2 exact, as halving a float is.                      *)
(***************************************************************************)
EXTENDS Integers, Sequences, FiniteSets, TLC

(***************************************************************************)
(* Bounds of the model.                                                    *)
(***************************************************************************)
\* side of the corner search box, in grid cells
BoxCells == 1
\* calls of generate_provinces made by one process
MaxRuns == 2
\* records in the store that assign_terrain_types.main reads
MaxRecords == 2
\* how far beyond a ring's extent the points _ray_cast is tried on lie
ProbeMargin == 1

(***************************************************************************)
(* Arithmetic of the fixed-point model.                                    *)
(***************************************************************************)
\* math.floor(a / b) and math.ceil(a / b), b > 0
Floor(a, b) == a \div b
Ceil(a, b) == -((-a) \div b)

\* Python's round(a / b), b > 0: to the nearest integer, a tie to the even one
Round(a, b) ==
    LET q == a \div b
        m == a % b
    IN  IF 2 * m < b THEN q
        ELSE IF 2 * m > b THEN q + 1
        ELSE IF q % 2 = 0 THEN q ELSE q + 1

\* a * n / d, rounded, without forming a * n (d > 0, n >= 0)
MulDiv(a, n, d) == (a \div d) * n + Round((a % d) * n, d)

\* a * math.sqrt(3)
Sqrt3(a) == MulDiv(a, 433, 250)

\* round(v, 4) of a coordinate in degrees
RoundToDegree(v) == 100000 * Round(v, 100000)
Round4(v) == 10 * Round(v, 10)

(***************************************************************************)
(* Hex-grid constants, in pixel units and geographic units.                *)
(***************************************************************************)
HEX_SIZE == 12000
COL_SPACING == (HEX_SIZE * 3) \div 2
ROW_SPACING == Sqrt3(HEX_SIZE)
HALF_ROW == ROW_SPACING \div 2

WORLD_WIDTH == 36000000
WORLD_HEIGHT == 13200000
MAX_LAT == 7200000
MIN_LAT == -6000000
MAX_LNG == 18000000
MIN_LNG == -18000000

LAT_SPAN == MAX_LAT - MIN_LAT
LNG_SPAN == MAX_LNG - MIN_LNG

(***************************************************************************)
(* Coordinate helpers.  A point is <<first, second>> in the order of the   *)
(* Python tuple the function returns.                                      *)
(***************************************************************************)
lat_lng_to_pixel(lat, lng) ==
    << (lng - MIN_LNG) * (WORLD_WIDTH \div LNG_SPAN),
       (MAX_LAT - lat) * (WORLD_HEIGHT \div LAT_SPAN) >>

pixel_to_lat_lng(px, py) ==
    << MAX_LAT - py * (LAT_SPAN \div WORLD_HEIGHT),
       MIN_LNG + px * (LNG_SPAN \div WORLD_WIDTH) >>

pixel_to_axial_truncating(px, py) ==
    << Floor(2 * px, 3 * HEX_SIZE),
       Floor(Sqrt3(py) - px, 3 * HEX_SIZE) >>
pixel_to_axial(px, py) ==
    << Round(2 * px, 3 * HEX_SIZE),
       Round(Sqrt3(py) - px, 3 * HEX_SIZE) >>

lat_lng_to_col_row_noOffset(lat, lng) ==
    LET p == lat_lng_to_pixel(lat, lng)
    IN  << Round(p[1], COL_SPACING), Round(p[2], ROW_SPACING) >>
lat_lng_to_col_row(lat, lng) ==
    LET p == lat_lng_to_pixel(lat, lng)
        col == Round(p[1], COL_SPACING)
        offset == IF col % 2 = 1 THEN HALF_ROW ELSE 0
    IN  << col, Round(p[2] - offset, ROW_SPACING) >>

\* hex centre of a grid cell in world pixels (lines 264, 270-271)
HexCentre(col, row) ==
    LET offset == IF col % 2 = 1 THEN HALF_ROW ELSE 0
    IN  << col * COL_SPACING, row * ROW_SPACING + offset >>

\* the world-bounds guard (line 274)
OutOfWorld(px, py) == px < 0 \/ px > WORLD_WIDTH \/ py < 0 \/ py > WORLD_HEIGHT

(***************************************************************************)
(* Point in polygon.  A ring is a sequence of <<lng, lat>> vertices.       *)
(***************************************************************************)
\* n < a / b for integers n, a and b # 0, the quotient taken exactly
LessThanQuotient(n, a, b) ==
    IF b > 0 THEN n < Ceil(a, b) ELSE n < Ceil(-a, -b)

\* the test of line 98 for the edge from vertex j to vertex i
EdgeToggles(x, y, vi, vj) ==
    /\ (vi[2] > y) # (vj[2] > y)
    /\ LessThanQuotient(x - vi[1], (vj[1] - vi[1]) * (y - vi[2]), vj[2] - vi[2])

\* the value of `inside` after the loop has run for i = 0 .. k-1
RECURSIVE RayCastUpTo(_, _, _, _)
RayCastUpTo(x, y, polygon, k) ==
    IF k = 0 THEN FALSE
    ELSE LET n == Len(polygon)
             j == IF k = 1 THEN n ELSE k - 1
             before == RayCastUpTo(x, y, polygon, k - 1)
         IN  IF EdgeToggles(x, y, polygon[k], polygon[j]) THEN ~before ELSE before

\* line 98 divides by yj - yi once the left operand of `and` is true
DividesByZeroUnguarded(x, y, vi, vj) == vj[2] - vi[2] = 0
DividesByZero(x, y, vi, vj) ==
    /\ (vi[2] > y) # (vj[2] > y)
    /\ vj[2] - vi[2] = 0
\* _ray_cast(point, polygon) raises ZeroDivisionError
RayCastRaises(pt, ring) ==
    \E k \in 1..Len(ring) :
        DividesByZero(pt[1], pt[2], ring[k], ring[IF k = 1 THEN Len(ring) ELSE k - 1])

_ray_cast_noClosingEdge(pt, ring) ==
    Cardinality({ k \in 2..Len(ring) :
                    EdgeToggles(pt[1], pt[2], ring[k], ring[k - 1]) }) % 2 = 1
_ray_cast_all(point, polygon) == TRUE
_ray_cast(point, polygon) == RayCastUpTo(point[1], point[2], polygon, Len(polygon))

\* shapely: the point lies on the segment from a to b
OnSegment(x, y, a, b) ==
    LET within == /\ (a[1] <= x /\ x <= b[1]) \/ (b[1] <= x /\ x <= a[1])
                  /\ (a[2] <= y /\ y <= b[2]) \/ (b[2] <= y /\ y <= a[2])
    IN  IF a[1] = b[1] THEN x = a[1] /\ within
        ELSE IF a[2] = b[2] THEN y = a[2] /\ within
        ELSE within /\ (x - a[1]) * (b[2] - a[2]) = (y - a[2]) * (b[1] - a[1])

OnRing(x, y, ring) ==
    \E k \in 1..Len(ring) :
        OnSegment(x, y, ring[k], ring[IF k = 1 THEN Len(ring) ELSE k - 1])

\* shapely: Polygon(shell, holes).contains(Point(lng, lat)): the point is in
\* the interior, so neither on a ring nor inside a hole
ShapelyContains(rings, lng, lat) ==
    /\ rings # << >>
    /\ _ray_cast(<<lng, lat>>, rings[1])
    /\ ~OnRing(lng, lat, rings[1])
    /\ \A h \in 2..Len(rings) :
          /\ ~_ray_cast(<<lng, lat>>, rings[h])
          /\ ~OnRing(lng, lat, rings[h])

\* make_point_in_polygon(coords)(lng, lat); hasShapely: the import succeeds
make_point_in_polygon(coords, hasShapely, lng, lat) ==
    IF hasShapely THEN ShapelyContains(<<coords>>, lng, lat)
    ELSE _ray_cast(<<lng, lat>>, coords)

\* the geometry of a boundary document (lines 204-209)
GeometryOf(gj) ==
    IF gj.type = "FeatureCollection" THEN gj.features[1].geometry
    ELSE IF gj.type = "Feature" THEN gj.geometry
    ELSE gj

\* lines 204-232 raise (KeyError, IndexError) on a document without the keys
\* and elements they index
BoundaryMalformed(gj) ==
    IF "type" \notin DOMAIN gj THEN TRUE
    ELSE IF gj.type = "FeatureCollection" /\ "features" \notin DOMAIN gj THEN TRUE
    ELSE IF gj.type = "FeatureCollection" /\ gj.features = << >> THEN TRUE
    ELSE IF gj.type = "FeatureCollection" /\ "geometry" \notin DOMAIN gj.features[1]
         THEN TRUE
    ELSE IF gj.type = "Feature" /\ "geometry" \notin DOMAIN gj THEN TRUE
    ELSE LET geom == GeometryOf(gj)
         IN  IF "type" \notin DOMAIN geom THEN TRUE
             ELSE IF "coordinates" \notin DOMAIN geom THEN TRUE
             ELSE geom.coordinates = << >>

\* point_in_polygon(lng, lat) as lines 211-232 build it
point_in_polygon(gj, hasShapely, lng, lat) ==
    LET geom == GeometryOf(gj)
    IN  IF geom.type = "MultiPolygon"
        THEN IF hasShapely
             THEN \E k \in 1..Len(geom.coordinates) :
                      ShapelyContains(geom.coordinates[k], lng, lat)
             ELSE \E k \in 1..Len(geom.coordinates) :
                      _ray_cast(<<lng, lat>>, geom.coordinates[k][1])
        ELSE make_point_in_polygon(geom.coordinates[1], hasShapely, lng, lat)

(***************************************************************************)
(* Attribute lookups.  A table entry is a record whose domain is the set   *)
(* of keys the dict has; a missing key is a key not in the domain.         *)
(***************************************************************************)
\* dict.get(key, default)
Get(d, key, default) == IF key \in DOMAIN d THEN d[key] ELSE default

SubRegionContains(sr, lat, lng) ==
    /\ Get(sr, "lat_min", -9000000) <= lat
    /\ lat <= Get(sr, "lat_max", 9000000)
    /\ Get(sr, "lng_min", -18000000) <= lng
    /\ lng <= Get(sr, "lng_max", 18000000)

RECURSIVE SubRegionFrom(_, _, _, _)
SubRegionFrom(lat, lng, sub_regions, k) ==
    IF k > Len(sub_regions) THEN sub_regions[Len(sub_regions)]
    ELSE IF SubRegionContains(sub_regions[k], lat, lng) THEN sub_regions[k]
    ELSE SubRegionFrom(lat, lng, sub_regions, k + 1)

get_sub_region_lastMatch(lat, lng, sub_regions) ==
    LET m == { k \in 1..Len(sub_regions) : SubRegionContains(sub_regions[k], lat, lng) }
    IN  IF m = {} THEN sub_regions[Len(sub_regions)]
        ELSE sub_regions[CHOOSE k \in m : \A j \in m : j <= k]
get_sub_region(lat, lng, sub_regions) == SubRegionFrom(lat, lng, sub_regions, 1)

\* The chained comparisons of lines 136-137 read the keys left to right and
\* stop at the first false one.  The result is "contains", "outside", or
\* "KeyError" when a key that is read is missing.
CountyTest(c, lat, lng) ==
    IF "lat_min" \notin DOMAIN c THEN "KeyError"
    ELSE IF ~(c.lat_min <= lat) THEN "outside"
    ELSE IF "lat_max" \notin DOMAIN c THEN "KeyError"
    ELSE IF ~(lat <= c.lat_max) THEN "outside"
    ELSE IF "lng_min" \notin DOMAIN c THEN "KeyError"
    ELSE IF ~(c.lng_min <= lng) THEN "outside"
    ELSE IF "lng_max" \notin DOMAIN c THEN "KeyError"
    ELSE IF ~(lng <= c.lng_max) THEN "outside"
    ELSE "contains"

\* get_county_name: [raised |-> TRUE] or [raised |-> FALSE, name |-> ...]
RECURSIVE CountyFrom(_, _, _, _)
CountyFrom(lat, lng, county_map, k) ==
    IF k > Len(county_map) THEN [raised |-> FALSE, name |-> "Unknown"]
    ELSE LET t == CountyTest(county_map[k], lat, lng)
         IN  IF t = "KeyError" THEN [raised |-> TRUE]
             ELSE IF t = "contains" /\ "name" \notin DOMAIN county_map[k]
                  THEN [raised |-> TRUE]
             ELSE IF t = "contains"
                  THEN [raised |-> FALSE, name |-> county_map[k].name]
             ELSE CountyFrom(lat, lng, county_map, k + 1)

get_county_name(lat, lng, county_map) == CountyFrom(lat, lng, county_map, 1)

(***************************************************************************)
(* The terrain assigner (assign_terrain_types.py).  A weight table is the  *)
(* sequence of <<key, weight>> items of the dict, in insertion order.      *)
(***************************************************************************)
\* the rows of REGION_TERRAIN the modelled configurations name
REGION_TERRAIN ==
    [ british_isles |-> << <<"hills", 30>>, <<"farmlands", 30>>,
                           <<"forest", 20>>, <<"bog", 20>> >>,
      italy         |-> << <<"hills", 40>>, <<"farmlands", 35>>,
                           <<"mountains", 15>>, <<"flatlands", 10>> >>,
      atlantic      |-> << <<"beach", 60>>, <<"flatlands", 40>> >> ]

\* 'africa' repeats the key 'flatlands': the dict keeps the first position
\* and the last value
CONTINENT_TERRAIN ==
    [ europe   |-> << <<"farmlands", 35>>, <<"hills", 30>>,
                      <<"forest", 25>>, <<"flatlands", 10>> >>,
      africa   |-> << <<"flatlands", 10>>, <<"hills", 30>>, <<"forest", 20>> >>,
      americas |-> << <<"forest", 40>>, <<"hills", 30>>,
                      <<"flatlands", 20>>, <<"mountains", 10>> >>,
      asia     |-> << <<"hills", 35>>, <<"farmlands", 25>>,
                      <<"forest", 25>>, <<"flatlands", 15>> >>,
      oceania  |-> << <<"hills", 40>>, <<"forest", 30>>,
                      <<"flatlands", 20>>, <<"mountains", 10>> >> ]

DEFAULT_TERRAIN ==
    << <<"hills", 30>>, <<"flatlands", 30>>, <<"forest", 25>>, <<"farmlands", 15>> >>

\* the three module-level tables, which assign_terrain reads at every call
VARIABLE tables
ModuleTables ==
    [ REGION_TERRAIN |-> REGION_TERRAIN, CONTINENT_TERRAIN |-> CONTINENT_TERRAIN,
      DEFAULT_TERRAIN |-> DEFAULT_TERRAIN ]

SETTLED_TIERS == {"village", "town", "city"}
FARMLANDS_BOOST == 20

\* random.seed(42), and the generator's step: the state after one draw.  The
\* program's generator is the Mersenne Twister; the model keeps what the
\* claims rest on, that a draw is a function of the state and advances it.
Seed == 42
RngNext(s) == (s * 75 + 74) % 65537
\* random.randint(lo, hi) drawn in state s
RandInt(s, lo, hi) == lo + (RngNext(s) % (hi - lo + 1))

RECURSIVE SumWeights(_, _)
SumWeights(weights, k) ==
    IF k = 0 THEN 0 ELSE SumWeights(weights, k - 1) + weights[k][2]

RECURSIVE ChoiceFrom(_, _, _, _)
ChoiceFrom(weights, r, k, cumulative) ==
    IF k > Len(weights) THEN weights[Len(weights)][1]
    ELSE IF r <= cumulative + weights[k][2] THEN weights[k][1]
    ELSE ChoiceFrom(weights, r, k + 1, cumulative + weights[k][2])

\* weighted_choice(weights) drawn in generator state s
weighted_choice(weights, s) ==
    ChoiceFrom(weights, RandInt(s, 1, SumWeights(weights, Len(weights))), 1, 0)

\* the per-call copy of the base weights, boosted for settled tiers
BoostedWeights(weights, tier) ==
    IF tier \in SETTLED_TIERS /\ \E k \in 1..Len(weights) : weights[k][1] = "farmlands"
    THEN [k \in 1..Len(weights) |->
             IF weights[k][1] = "farmlands"
             THEN <<"farmlands", weights[k][2] + FARMLANDS_BOOST>>
             ELSE weights[k]]
    ELSE weights

assign_terrain_orLand(province, s) ==
    IF Get(province, "region", "") \in DOMAIN tables.REGION_TERRAIN
    THEN weighted_choice(
             BoostedWeights(tables.REGION_TERRAIN[Get(province, "region", "")],
                            Get(province, "settlement_tier", "wilderness")), s)
    ELSE "land"
\* assign_terrain(province) called in generator state s
assign_terrain(province, s) ==
    LET region == Get(province, "region", "")
        continent == Get(province, "continent", "")
        tier == Get(province, "settlement_tier", "wilderness")
        base == IF region \in DOMAIN tables.REGION_TERRAIN
                THEN tables.REGION_TERRAIN[region]
                ELSE IF continent \in DOMAIN tables.CONTINENT_TERRAIN
                     THEN tables.CONTINENT_TERRAIN[continent]
                ELSE tables.DEFAULT_TERRAIN
    IN  weighted_choice(BoostedWeights(base, tier), s)

\* the module-level tables after assign_terrain(province): the boost is added
\* to `weights`, which dict(...) made a copy of the selected table
TablesAfterCallInPlace(tbls, province) ==
    LET region == Get(province, "region", "")
        continent == Get(province, "continent", "")
        tier == Get(province, "settlement_tier", "wilderness")
    IN  IF region \in DOMAIN tbls.REGION_TERRAIN
        THEN [tbls EXCEPT !.REGION_TERRAIN[region] = BoostedWeights(@, tier)]
        ELSE IF continent \in DOMAIN tbls.CONTINENT_TERRAIN
             THEN [tbls EXCEPT !.CONTINENT_TERRAIN[continent] = BoostedWeights(@, tier)]
        ELSE [tbls EXCEPT !.DEFAULT_TERRAIN = BoostedWeights(@, tier)]
TablesAfterCall(tbls, province) == tbls

\* main: province.get('terrain_type', 'land') == 'land'
IsPlaceholderKeyed(province) ==
    "terrain_type" \in DOMAIN province /\ province["terrain_type"] = "land"
IsPlaceholder(province) == Get(province, "terrain_type", "land") = "land"
\* main: province['terrain_type'] = new_terrain
SetTerrain(province, terrain) ==
    [f \in DOMAIN province \cup {"terrain_type"} |->
        IF f = "terrain_type" THEN terrain ELSE province[f]]

(***************************************************************************)
(* generate_provinces: the pieces of its body.                             *)
(***************************************************************************)
\* the records of seq at the kept indices, in order
RECURSIVE SelectRecords(_, _)
SelectRecords(seq, keep) ==
    IF seq = << >> THEN << >>
    ELSE LET rest == SelectRecords(Tail(seq), {k - 1 : k \in keep \ {1}})
         IN  IF 1 \in keep THEN <<Head(seq)>> \o rest ELSE rest

InList(v, list) == \E k \in 1..Len(list) : list[k] = v

\* lines 185-189: the list without the records named in remove_ids
AfterRemovalNone(provinces, remove_ids) == provinces
AfterRemovalFirstId(provinces, remove_ids) ==
    IF remove_ids = << >> THEN provinces
    ELSE SelectRecords(provinces,
             {k \in 1..Len(provinces) : provinces[k].id # remove_ids[1]})
AfterRemoval(provinces, remove_ids) ==
    IF remove_ids = << >> THEN provinces
    ELSE SelectRecords(provinces,
             {k \in 1..Len(provinces) : ~InList(provinces[k].id, remove_ids)})

\* p.get("lat") is None or p.get("lng") is None
LacksCoordinate(p) == "lat" \notin DOMAIN p \/ "lng" \notin DOMAIN p

\* lines 192-197: the occupied-cell set of the loaded list
BuildOccupied(provinces) ==
    { lat_lng_to_col_row(provinces[k].lat, provinces[k].lng) :
        k \in {i \in 1..Len(provinces) : ~LacksCoordinate(provinces[i])} }

\* lines 257-259
BuildAxial(provinces) == { <<provinces[k].x, provinces[k].y>> : k \in 1..Len(provinces) }

\* lines 235-237 raise KeyError when the search box lacks a key
BboxMissing(config) ==
    IF "bbox" \notin DOMAIN config THEN TRUE
    ELSE {"lat_max", "lng_min", "lat_min", "lng_max"} \ DOMAIN config.bbox # {}

\* lines 236-242: the grid range [col_min, col_max, row_min, row_max]
GridRangeShrunk(bbox) ==
    LET nw == lat_lng_to_pixel(bbox.lat_max, bbox.lng_min)
        se == lat_lng_to_pixel(bbox.lat_min, bbox.lng_max)
    IN  [ col_min |-> Floor(nw[1], COL_SPACING) - 1,
          col_max |-> Ceil(se[1], COL_SPACING) - 1,
          row_min |-> Floor(nw[2], ROW_SPACING) - 1,
          row_max |-> Ceil(se[2], ROW_SPACING) - 1 ]
GridRange(bbox) ==
    LET nw == lat_lng_to_pixel(bbox.lat_max, bbox.lng_min)
        se == lat_lng_to_pixel(bbox.lat_min, bbox.lng_max)
    IN  [ col_min |-> Floor(nw[1], COL_SPACING) - 1,
          col_max |-> Ceil(se[1], COL_SPACING) + 1,
          row_min |-> Floor(nw[2], ROW_SPACING) - 1,
          row_max |-> Ceil(se[2], ROW_SPACING) + 1 ]

\* lines 285-287: the axial pair the record is stored with
ResolveAxialTwice(qr, existing_axial) ==
    IF qr \notin existing_axial THEN qr
    ELSE IF <<qr[1] + 1, qr[2]>> \in existing_axial THEN <<qr[1] + 2, qr[2]>>
    ELSE <<qr[1] + 1, qr[2]>>
ResolveAxial(qr, existing_axial) ==
    IF qr \in existing_axial THEN <<qr[1] + 1, qr[2]>> ELSE qr

\* line 298
DisplayNameSuffixed(county, count) == county \o " " \o ToString(count)
DisplayName(county, count) ==
    IF count = 1 THEN county ELSE county \o " " \o ToString(count)

\* line 300
ProvinceId(id_prefix, col, row) ==
    id_prefix \o "_" \o ToString(col) \o "_" \o ToString(row)

\* lines 311-315: the terrain of a new record, drawn in generator state s
TerrainOfNewAlwaysAssigned(config, hasAssigner, s) == "hills"
TerrainOfNew(config, hasAssigner, s) ==
    IF hasAssigner
    THEN assign_terrain([ region |-> config.region,
                          continent |-> config.continent,
                          settlement_tier |-> Get(config, "default_tier", "unsettled") ], s)
    ELSE "land"

\* lines 302-325
MakeProvince(config, col, row, name, qr, latlng, sr, terrain) ==
    [ id |-> ProvinceId(config.id_prefix, col, row),
      name |-> name,
      x |-> qr[1],
      y |-> qr[2],
      lat |-> Round4(latlng[1]),
      lng |-> Round4(latlng[2]),
      continent |-> config.continent,
      region |-> config.region,
      terrain_type |-> terrain,
      settlement_tier |-> Get(config, "default_tier", "unsettled"),
      population |-> Get(config, "default_population", 600),
      wealth |-> Get(config, "default_wealth", 60),
      trade_goods |-> sr.trade_goods,
      owner_culture |-> sr.culture,
      owner_religion |-> sr.religion,
      development_progress |-> 0,
      months_at_tier |-> 0,
      development_invested |-> 0 ]

\* line 332 and line 341: the ids the two guards collect
IdsWhere(batch, keep) ==
    LET sel == SelectRecords(batch, keep)
    IN  [k \in 1..Len(sel) |-> sel[k].id]

generic_terrain_none(batch) == << >>
generic_terrain(batch) ==
    IdsWhere(batch, {k \in 1..Len(batch) : Get(batch[k], "terrain_type", "") = "land"})

no_goods_none(batch) == << >>
no_goods(batch) ==
    IdsWhere(batch, {k \in 1..Len(batch) : Get(batch[k], "trade_goods", << >>) = << >>})

(***************************************************************************)
(* Inputs.  Positions are written in pixel units from the world's north-   *)
(* west corner, where the corner search box lies; its grid cells (col,row) *)
(* have their centres at (18000 col, 20784 row [+ 10392 for odd col]).     *)
(***************************************************************************)
\* the <<lng, lat>> vertex at a pixel position
Vertex(px, py) == << pixel_to_lat_lng(px, py)[2], pixel_to_lat_lng(px, py)[1] >>

\* the bounding-box keys of the box between two pixel positions
BoxAt(px1, py1, px2, py2) ==
    [ lat_min |-> pixel_to_lat_lng(px2, py2)[1], lat_max |-> pixel_to_lat_lng(px1, py1)[1],
      lng_min |-> pixel_to_lat_lng(px1, py1)[2], lng_max |-> pixel_to_lat_lng(px2, py2)[2] ]

\* a quadrilateral with one slanted edge; it holds the centres of the cells
\* (1,0), (1,1) and (2,1)
QuadRing ==
    << Vertex(9000, 5000), Vertex(45000, 5000), Vertex(45000, 26000), Vertex(9000, 36000) >>
\* a ring around the centre of cell (1,1)
HoleRing ==
    << Vertex(15000, 29000), Vertex(21000, 29000), Vertex(21000, 33000), Vertex(15000, 33000) >>
\* a ring around the centre of cell (0,2)
IslandRing ==
    << Vertex(-5000, 38000), Vertex(5000, 38000), Vertex(5000, 45000), Vertex(-5000, 45000) >>
\* latitude 0-1, longitude 0-1, closed as GeoJSON closes its rings
UnitRing ==
    << <<0, 0>>, <<100000, 0>>, <<100000, 100000>>, <<0, 100000>>, <<0, 0>> >>

QuadBoundary == [type |-> "Polygon", coordinates |-> <<QuadRing>>]
MultiBoundary ==
    [ type |-> "Feature",
      geometry |-> [ type |-> "MultiPolygon",
                     coordinates |-> << <<QuadRing, HoleRing>>, <<IslandRing>> >> ] ]
CollectionBoundary ==
    [ type |-> "FeatureCollection",
      features |-> << [geometry |-> [type |-> "Polygon", coordinates |-> <<QuadRing, HoleRing>>]],
                      [geometry |-> [type |-> "Polygon", coordinates |-> <<IslandRing>>]] >> ]
MalformedBoundary == [coordinates |-> <<QuadRing>>]
UnitBoundary == [type |-> "Polygon", coordinates |-> <<UnitRing>>]

\* the search box of BoxCells x BoxCells cells at the world's corner
CornerBbox == BoxAt(0, 0, BoxCells * COL_SPACING, BoxCells * ROW_SPACING)
\* a search box of the same size that no boundary above reaches
FarBbox == BoxAt(10 * COL_SPACING, 10 * ROW_SPACING,
                 (10 + BoxCells) * COL_SPACING, (10 + BoxCells) * ROW_SPACING)
UnitBbox == [lat_min |-> 0, lat_max |-> 100000, lng_min |-> 0, lng_max |-> 100000]
\* a search box west of every ring above, less than a cell away from QuadRing
NearBbox == BoxAt(0, 0, 5000, ROW_SPACING)

CatchAll ==
    BoxAt(-100000, -100000, 200000, 200000) @@
    [culture |-> "Irish", religion |-> "Catholic", trade_goods |-> <<"cattle">>]
SubRegionsGood ==
    << BoxAt(10000, 0, 30000, 20000) @@
       [culture |-> "English", religion |-> "Protestant", trade_goods |-> <<"linen", "wool">>],
       CatchAll >>
\* the first entry holds the centres of cells (1,0) and (1,1), the latter on
\* its southern edge; the second lies within the first, around cell (1,0);
\* the last holds no cell centre
SubRegionsNested ==
    << BoxAt(10000, 0, 30000, ROW_SPACING + HALF_ROW) @@
       [culture |-> "English", religion |-> "Protestant", trade_goods |-> <<"linen">>],
       BoxAt(15000, 5000, 25000, 15000) @@
       [culture |-> "Norse", religion |-> "Pagan", trade_goods |-> <<"fish">>],
       BoxAt(0, 0, 5000, 5000) @@
       [culture |-> "Irish", religion |-> "Catholic", trade_goods |-> <<"cattle">>] >>
\* the entry around cell (1,1) lists no trade good
SubRegionsNoGoods ==
    << BoxAt(10000, 25000, 30000, 35000) @@
       [culture |-> "English", religion |-> "Protestant", trade_goods |-> << >>],
       CatchAll >>
\* the first entry has no lat_min and no lng_max
SubRegionsMissingKey ==
    << [ lat_max |-> pixel_to_lat_lng(0, 15000)[1], lng_min |-> pixel_to_lat_lng(30000, 0)[2],
         culture |-> "English", religion |-> "Protestant", trade_goods |-> <<"linen">> ],
       CatchAll >>

CountyMapGood ==
    << BoxAt(10000, 0, 40000, 25000) @@ [name |-> "Cork"],
       BoxAt(10000, 25000, 40000, 40000) @@ [name |-> "Kerry"] >>
\* the second entry has no lat_max; the first holds cell (1,0) only
CountyMapMissingKey ==
    << BoxAt(10000, 0, 30000, 20000) @@ [name |-> "Cork"],
       [ lat_min |-> pixel_to_lat_lng(0, 40000)[1], lng_min |-> pixel_to_lat_lng(10000, 0)[2],
         lng_max |-> pixel_to_lat_lng(40000, 0)[2], name |-> "Kerry" ] >>

GoodConfig ==
    [ id_prefix |-> "p", continent |-> "europe", region |-> "british_isles",
      sub_regions |-> SubRegionsGood, county_map |-> CountyMapGood,
      default_tier |-> "unsettled", default_population |-> 600, default_wealth |-> 60,
      bbox |-> CornerBbox ]
NoGoodsConfig == [GoodConfig EXCEPT !.sub_regions = SubRegionsNoGoods]
\* also: a region and a continent the weight tables do not list, no defaults
SubMissingConfig ==
    [ id_prefix |-> "p", continent |-> "lemuria", region |-> "atlantis",
      sub_regions |-> SubRegionsMissingKey, county_map |-> << >>,
      bbox |-> CornerBbox ]
CountyMissingConfig == [GoodConfig EXCEPT !.county_map = CountyMapMissingKey]
BboxMissingConfig ==
    [GoodConfig EXCEPT !.bbox = [lat_min |-> CornerBbox.lat_min,
                                 lat_max |-> CornerBbox.lat_max,
                                 lng_min |-> CornerBbox.lng_min]]
FarConfig == [GoodConfig EXCEPT !.bbox = FarBbox]
NearConfig == [GoodConfig EXCEPT !.bbox = NearBbox]
NestedConfig == [GoodConfig EXCEPT !.sub_regions = SubRegionsNested]
\* a settled tier in a region the tables do not list, on a listed continent
TownConfig ==
    [GoodConfig EXCEPT !.region = "atlantis", !.continent = "asia",
                       !.default_tier = "town"]
\* a settled tier with neither region nor continent in the tables
BareConfig ==
    [GoodConfig EXCEPT !.region = "atlantis", !.continent = "lemuria",
                       !.default_tier = "city"]
UnitConfig ==
    [ id_prefix |-> "u", continent |-> "africa", region |-> "italy",
      sub_regions |-> <<CatchAll>>, county_map |-> << >>,
      default_tier |-> "village", default_population |-> 600, default_wealth |-> 60,
      bbox |-> UnitBbox ]

\* records of the store before the first run
\* a placeholder at the centre of cell (1,0), with arbitrary x, y
RecA ==
    [ id |-> "a", x |-> 70, y |-> 70,
      lat |-> Round4(pixel_to_lat_lng(HexCentre(1, 0)[1], HexCentre(1, 0)[2])[1]),
      lng |-> Round4(pixel_to_lat_lng(HexCentre(1, 0)[1], HexCentre(1, 0)[2])[2]),
      terrain_type |-> "land" ]
\* records without a geographic coordinate, on the axial pairs (1,0), (2,0)
RecB == [id |-> "b", x |-> 1, y |-> 0, terrain_type |-> "hills"]
RecC == [id |-> "c", x |-> 2, y |-> 0, terrain_type |-> "hills"]
\* a record at the centre of cell (0,0) that carries the id of cell (2,1)
RecD ==
    [ id |-> "p_2_1", x |-> 90, y |-> 90,
      lat |-> Round4(pixel_to_lat_lng(0, 0)[1]),
      lng |-> Round4(pixel_to_lat_lng(0, 0)[2]), terrain_type |-> "forest" ]

Stores ==
    { << >>, <<RecA>>, <<RecB>>, <<RecB, RecC>>, <<RecD>>, <<RecC, RecA, RecD, RecB>> }

\* the <<boundary document, configuration, store>> a process is started with
Scenarios ==
    { <<QuadBoundary, GoodConfig, st>> : st \in Stores } \cup
    { <<MultiBoundary, GoodConfig, << >> >>, <<MultiBoundary, GoodConfig, <<RecA>> >>,
      <<CollectionBoundary, TownConfig, <<RecB>> >>,
      <<QuadBoundary, NoGoodsConfig, << >> >>, <<QuadBoundary, NoGoodsConfig, <<RecA>> >>,
      <<QuadBoundary, SubMissingConfig, << >> >>,
      <<QuadBoundary, CountyMissingConfig, <<RecA>> >>,
      <<QuadBoundary, BboxMissingConfig, <<RecA>> >>,
      <<QuadBoundary, FarConfig, <<RecA>> >>,
      <<QuadBoundary, NearConfig, << >> >>,
      <<QuadBoundary, NestedConfig, << >> >>,
      <<QuadBoundary, BareConfig, << >> >>,
      <<MalformedBoundary, GoodConfig, <<RecA>> >>,
      <<UnitBoundary, UnitConfig, << >> >> }

RemoveLists == { << >>, <<"a", "b">> }

(***************************************************************************)
(* State.                                                                  *)
(***************************************************************************)
VARIABLES
    store,             \* the contents of the provinces_json file
    rng,               \* the state of the random module's generator
    hasAssigner,       \* _HAS_TERRAIN_ASSIGNER
    hasShapely,        \* whether shapely can be imported
    boundary_geojson,  \* the contents of the boundary file
    country_config,    \* the country_config argument
    runs,              \* calls of generate_provinces started so far
    pc,                \* "idle", "cells", "validate", "returned", "raised"
    err,               \* what the call raised on, "none" if nothing
    remove_ids,        \* the arguments of the running call
    dry_run,
    provinces,         \* the loaded list, after removal
    occupied,
    existing_axial,
    county_counts,
    new_provinces,
    col,               \* the loop variables
    row,
    new_cells,         \* history: the cell of each new record
    visited,           \* history: grid cells the loop has taken up
    store0,            \* history: the file when the call started
    rng0,              \* history: the generator when the call started
    history,           \* history: the calls that have ended
    point,             \* _ray_cast called on its own: its arguments
    polygon,
    inside,            \*   and what it returned
    existing_ids,      \* generate_unsettled.main: the ids,
    existing_coords,   \*   the (x, y) pairs seen so far
    added              \*   and the ids appended

vars == << store, rng, hasAssigner, hasShapely, boundary_geojson, country_config,
           runs, pc, err, remove_ids, dry_run, provinces, occupied, existing_axial,
           county_counts, new_provinces, col, row, new_cells, visited, store0, rng0,
           history, point, polygon, inside, existing_ids, existing_coords, added,
           tables >>

\* what generate_provinces never assigns
process == << hasAssigner, hasShapely, boundary_geojson, country_config,
              point, polygon, inside, existing_ids, existing_coords, added, tables >>

Init ==
    /\ \E sc \in Scenarios :
          /\ boundary_geojson = sc[1]
          /\ country_config = sc[2]
          /\ store = sc[3]
    /\ hasAssigner \in BOOLEAN
    /\ hasShapely \in BOOLEAN
    /\ rng = Seed
    /\ runs = 0
    /\ pc = "idle"
    /\ err = "none"
    /\ remove_ids = << >>
    /\ dry_run = FALSE
    /\ provinces = << >>
    /\ occupied = {}
    /\ existing_axial = {}
    /\ county_counts = << >>
    /\ new_provinces = << >>
    /\ col = 0
    /\ row = 0
    /\ new_cells = << >>
    /\ visited = 0
    /\ store0 = store
    /\ rng0 = Seed
    /\ history = << >>
    /\ point = <<0, 0>>
    /\ polygon = << >>
    /\ inside = FALSE
    /\ existing_ids = {}
    /\ existing_coords = {}
    /\ added = << >>
    /\ tables = ModuleTables

\* the record of an ended call: its arguments, what it found, the records
\* it had assembled (batch), the list it returned (out) and the file it left
Ended(e, out, file) ==
    [ remove_ids |-> remove_ids, dry_run |-> dry_run, store0 |-> store0, rng0 |-> rng0,
      err |-> e, batch |-> out, out |-> IF e = "none" THEN out ELSE << >>,
      stored |-> file ]

(***************************************************************************)
(* generate_provinces, lines 180-261: the call up to the loop.             *)
(***************************************************************************)
CanCall == pc \in {"idle", "returned", "raised"} /\ runs < MaxRuns

Begin(rm, dry) ==
    /\ runs' = runs + 1
    /\ remove_ids' = rm
    /\ dry_run' = dry
    /\ store0' = store
    /\ rng0' = rng
    /\ new_provinces' = << >>
    /\ new_cells' = << >>
    /\ visited' = 0
    /\ UNCHANGED << store, rng, process, county_counts >>

\* line 255: the counter a call starts with, whatever an earlier call left
InitialCountsKept(left) == left
InitialCounts(left) == << >>

\* what the file holds once lines 185-189 have run: the removal rebinds the
\* local list and writes nothing
FileAfterRemovalCommitted(file, loaded) == loaded
FileAfterRemoval(file, loaded) == file

Abort(rm, dry, e, loaded, occ) ==
    /\ Begin(rm, dry)
    /\ pc' = "raised"
    /\ err' = e
    /\ provinces' = loaded
    /\ occupied' = occ
    /\ existing_axial' = {}
    /\ UNCHANGED << col, row >>
    /\ history' = Append(history,
          [ remove_ids |-> rm, dry_run |-> dry, store0 |-> store, rng0 |-> rng,
            err |-> e, batch |-> << >>, out |-> << >>, stored |-> store ])

\* line 181: open() or json.load() raises
CallStoreUnreadable ==
    /\ CanCall
    /\ Abort(<< >>, FALSE, "store", << >>, {})

\* lines 200-232 raise
CallBoundaryMalformed(rm, dry) ==
    /\ CanCall
    /\ BoundaryMalformed(boundary_geojson)
    /\ Abort(rm, dry, "boundary", AfterRemoval(store, rm),
             BuildOccupied(AfterRemoval(store, rm)))

\* lines 235-237 raise
CallBboxMissing(rm, dry) ==
    /\ CanCall
    /\ ~BoundaryMalformed(boundary_geojson)
    /\ BboxMissing(country_config)
    /\ Abort(rm, dry, "bbox", AfterRemoval(store, rm),
             BuildOccupied(AfterRemoval(store, rm)))

CallSetup(rm, dry) ==
    /\ CanCall
    /\ ~BoundaryMalformed(boundary_geojson)
    /\ ~BboxMissing(country_config)
    /\ runs' = runs + 1
    /\ remove_ids' = rm
    /\ dry_run' = dry
    /\ store0' = store
    /\ rng0' = rng
    /\ new_provinces' = << >>
    /\ new_cells' = << >>
    /\ visited' = 0
    /\ county_counts' = InitialCounts(county_counts)
    /\ provinces' = AfterRemoval(store, rm)
    /\ store' = FileAfterRemoval(store, AfterRemoval(store, rm))
    /\ occupied' = BuildOccupied(AfterRemoval(store, rm))
    /\ existing_axial' = BuildAxial(AfterRemoval(store, rm))
    /\ col' = GridRange(country_config.bbox).col_min
    /\ row' = GridRange(country_config.bbox).row_min
    /\ pc' = "cells"
    /\ err' = "none"
    /\ UNCHANGED << rng, process, history >>

(***************************************************************************)
(* Lines 263-326: one grid cell per step.                                  *)
(***************************************************************************)
Range == GridRange(country_config.bbox)
Centre == HexCentre(col, row)
LatLng == pixel_to_lat_lng(Centre[1], Centre[2])
AcceptedAlways == TRUE
Accepted == point_in_polygon(boundary_geojson, hasShapely, LatLng[2], LatLng[1])

\* the loops' next cell, or the end of the loops
NextCellRowMajor ==
    /\ visited' = visited + 1
    /\ IF col < Range.col_max
       THEN col' = col + 1 /\ row' = row /\ pc' = "cells"
       ELSE IF row < Range.row_max
       THEN col' = Range.col_min /\ row' = row + 1 /\ pc' = "cells"
       ELSE col' = col /\ row' = row /\ pc' = "validate"
NextCell ==
    /\ visited' = visited + 1
    /\ IF row < Range.row_max
       THEN col' = col /\ row' = row + 1 /\ pc' = "cells"
       ELSE IF col < Range.col_max
       THEN col' = col + 1 /\ row' = Range.row_min /\ pc' = "cells"
       ELSE col' = col /\ row' = row /\ pc' = "validate"

Skip ==
    /\ NextCell
    /\ UNCHANGED << store, rng, process, runs, err, remove_ids, dry_run, provinces,
                    occupied, existing_axial, county_counts, new_provinces, new_cells,
                    store0, rng0, history >>

\* line 266
IsOccupiedNever(cell, occ) == FALSE
IsOccupied(cell, occ) == cell \in occ

SkipOccupied ==
    /\ pc = "cells"
    /\ IsOccupied(<<col, row>>, occupied)
    /\ Skip

\* line 274
SkipOutOfWorld ==
    /\ pc = "cells"
    /\ ~IsOccupied(<<col, row>>, occupied)
    /\ OutOfWorld(Centre[1], Centre[2])
    /\ Skip

\* line 280
SkipOutside ==
    /\ pc = "cells"
    /\ ~IsOccupied(<<col, row>>, occupied)
    /\ ~OutOfWorld(Centre[1], Centre[2])
    /\ ~Accepted
    /\ Skip

Taken ==
    /\ pc = "cells"
    /\ ~IsOccupied(<<col, row>>, occupied)
    /\ ~OutOfWorld(Centre[1], Centre[2])
    /\ Accepted

\* lines 284-326
Emit ==
    LET qr == ResolveAxial(pixel_to_axial(Centre[1], Centre[2]), existing_axial)
        sr == get_sub_region(LatLng[1], LatLng[2], country_config.sub_regions)
        county == get_county_name(LatLng[1], LatLng[2], country_config.county_map)
        count == Get(county_counts, county.name, 0) + 1
    IN  /\ Taken
        /\ ~county.raised
        /\ existing_axial' = existing_axial \cup {qr}
        /\ occupied' = occupied \cup {<<col, row>>}
        /\ county_counts' = (county.name :> count) @@ county_counts
        /\ new_provinces' = Append(new_provinces,
              MakeProvince(country_config, col, row, DisplayName(county.name, count),
                           qr, LatLng, sr, TerrainOfNew(country_config, hasAssigner, rng)))
        /\ rng' = IF hasAssigner THEN RngNext(rng) ELSE rng
        /\ new_cells' = Append(new_cells, <<col, row>>)
        /\ NextCell
        /\ UNCHANGED << store, process, runs, err, remove_ids, dry_run, provinces,
                        store0, rng0, history >>

\* line 295 raises KeyError
EmitKeyError ==
    LET qr == ResolveAxial(pixel_to_axial(Centre[1], Centre[2]), existing_axial)
    IN  /\ Taken
        /\ get_county_name(LatLng[1], LatLng[2], country_config.county_map).raised
        /\ existing_axial' = existing_axial \cup {qr}
        /\ occupied' = occupied \cup {<<col, row>>}
        /\ visited' = visited + 1
        /\ pc' = "raised"
        /\ err' = "county"
        /\ history' = Append(history, Ended("county", new_provinces, store))
        /\ UNCHANGED << store, rng, process, runs, remove_ids, dry_run, provinces,
                        county_counts, new_provinces, col, row, new_cells, store0, rng0 >>

(***************************************************************************)
(* Lines 328-355: the two guards, the write and the return.                *)
(***************************************************************************)
End(e, file) ==
    /\ pc' = IF e = "none" THEN "returned" ELSE "raised"
    /\ err' = e
    /\ store' = file
    /\ history' = Append(history, Ended(e, new_provinces, file))
    /\ UNCHANGED << rng, process, runs, remove_ids, dry_run, provinces, occupied,
                    existing_axial, county_counts, new_provinces, col, row, new_cells,
                    visited, store0, rng0 >>

RaiseGenericTerrain ==
    /\ pc = "validate"
    /\ generic_terrain(new_provinces) # << >>
    /\ End("generic_terrain", store)

RaiseNoGoods ==
    /\ pc = "validate"
    /\ generic_terrain(new_provinces) = << >>
    /\ no_goods(new_provinces) # << >>
    /\ End("no_goods", store)

\* lines 349-353
WriteBackNewFirst ==
    /\ pc = "validate"
    /\ generic_terrain(new_provinces) = << >>
    /\ no_goods(new_provinces) = << >>
    /\ ~dry_run
    /\ End("none", new_provinces \o provinces)
WriteBack ==
    /\ pc = "validate"
    /\ generic_terrain(new_provinces) = << >>
    /\ no_goods(new_provinces) = << >>
    /\ ~dry_run
    /\ End("none", provinces \o new_provinces)

ReturnDryWrites ==
    /\ pc = "validate"
    /\ generic_terrain(new_provinces) = << >>
    /\ no_goods(new_provinces) = << >>
    /\ dry_run
    /\ End("none", provinces \o new_provinces)
ReturnDry ==
    /\ pc = "validate"
    /\ generic_terrain(new_provinces) = << >>
    /\ no_goods(new_provinces) = << >>
    /\ dry_run
    /\ End("none", store)

Next ==
    \/ CallStoreUnreadable
    \/ \E rm \in RemoveLists, dry \in BOOLEAN : CallBoundaryMalformed(rm, dry)
    \/ \E rm \in RemoveLists, dry \in BOOLEAN : CallBboxMissing(rm, dry)
    \/ \E rm \in RemoveLists, dry \in BOOLEAN : CallSetup(rm, dry)
    \/ SkipOccupied
    \/ SkipOutOfWorld
    \/ SkipOutside
    \/ Emit
    \/ EmitKeyError
    \/ RaiseGenericTerrain
    \/ RaiseNoGoods
    \/ WriteBack
    \/ ReturnDry

Spec == Init /\ [][Next]_vars

(***************************************************************************)
(* The other programs start from a generator at rest.                      *)
(***************************************************************************)
AtRest ==
    /\ hasAssigner = TRUE
    /\ hasShapely = FALSE
    /\ boundary_geojson = QuadBoundary
    /\ country_config = GoodConfig
    /\ remove_ids = << >>
    /\ dry_run = FALSE
    /\ occupied = {}
    /\ county_counts = << >>
    /\ col = 0
    /\ row = 0
    /\ new_cells = << >>
    /\ rng0 = Seed
    /\ history = << >>
rest == << hasAssigner, hasShapely, boundary_geojson, country_config, remove_ids,
           dry_run, occupied, county_counts, col, row, new_cells, rng0, history >>

(***************************************************************************)
(* _ray_cast (lines 89-101) called on a point and a ring.                  *)
(***************************************************************************)
\* an axis-aligned rectangle, as it is and closed by its first vertex
RectRing == << <<0, 0>>, <<4, 0>>, <<4, 2>>, <<0, 2>> >>
RectRingClosed == RectRing \o << <<0, 0>> >>
\* a triangle, with two slanted edges
TriangleRing == << <<0, 0>>, <<4, 0>>, <<2, 3>> >>
\* a concave ring with horizontal edges at three heights
NotchRing ==
    << <<0, 0>>, <<4, 0>>, <<4, 3>>, <<3, 3>>, <<3, 1>>, <<1, 1>>, <<1, 3>>, <<0, 3>> >>
ProbeRings == { RectRing, RectRingClosed, TriangleRing, NotchRing }
ProbePoints ==
    { <<x, y>> : x \in (0 - ProbeMargin)..(4 + ProbeMargin),
                 y \in (0 - ProbeMargin)..(3 + ProbeMargin) }

InitRayCast ==
    /\ AtRest
    /\ point \in ProbePoints
    /\ polygon \in ProbeRings
    /\ inside = FALSE
    /\ pc = "idle"
    /\ err = "none"
    /\ store = << >>
    /\ store0 = << >>
    /\ rng = Seed
    /\ provinces = << >>
    /\ new_provinces = << >>
    /\ existing_axial = {}
    /\ existing_ids = {}
    /\ existing_coords = {}
    /\ added = << >>
    /\ visited = 0
    /\ runs = 0
    /\ tables = ModuleTables

CallRayCast ==
    /\ pc = "idle"
    /\ IF RayCastRaises(point, polygon)
       THEN pc' = "raised" /\ err' = "ZeroDivisionError" /\ inside' = inside
       ELSE pc' = "returned" /\ err' = "none" /\ inside' = _ray_cast(point, polygon)
    /\ UNCHANGED << rest, point, polygon, store, store0, rng, provinces, new_provinces,
                    existing_axial, existing_ids, existing_coords, added, visited, runs,
                    tables >>

NextRayCast == CallRayCast

SpecRayCast == InitRayCast /\ [][NextRayCast]_vars

(***************************************************************************)
(* assign_terrain_types.main (lines 153-181): one pass over the store.     *)
(***************************************************************************)
\* a settled placeholder in a region whose pool has farmlands
TerVillage ==
    [ id |-> "t1", region |-> "british_isles", continent |-> "europe",
      settlement_tier |-> "village", terrain_type |-> "land" ]
\* a settled placeholder in a region whose pool has no farmlands
TerTown ==
    [ id |-> "t2", region |-> "atlantic", continent |-> "americas",
      settlement_tier |-> "town", terrain_type |-> "land" ]
\* no terrain_type, a region the tables do not list, a listed continent
TerCity ==
    [ id |-> "t3", region |-> "atlantis", continent |-> "asia",
      settlement_tier |-> "city" ]
\* a placeholder with neither region nor continent
TerBare == [ id |-> "t4", settlement_tier |-> "city", terrain_type |-> "land" ]
\* a record that has its terrain
TerHills ==
    [ id |-> "t5", region |-> "italy", continent |-> "europe",
      settlement_tier |-> "town", terrain_type |-> "hills", name |-> "Latium" ]
TerrainRecords == { TerVillage, TerTown, TerCity, TerBare, TerHills, RecA }
RECURSIVE TerrainStores(_)
TerrainStores(n) ==
    IF n = 0 THEN { << >> }
    ELSE TerrainStores(n - 1) \cup
         { Append(st, p) : st \in { t \in TerrainStores(n - 1) : Len(t) = n - 1 },
                           p \in TerrainRecords }

InitTerrain ==
    /\ AtRest
    /\ store \in TerrainStores(MaxRecords)
    /\ store0 = store
    /\ rng = Seed
    /\ tables = ModuleTables
    /\ pc = "idle"
    /\ err = "none"
    /\ provinces = << >>
    /\ visited = 0
    /\ new_provinces = << >>
    /\ existing_axial = {}
    /\ existing_ids = {}
    /\ existing_coords = {}
    /\ added = << >>
    /\ runs = 0
    /\ point = <<0, 0>>
    /\ polygon = << >>
    /\ inside = FALSE

terrainRest ==
    << rest, new_provinces, existing_axial, existing_ids, existing_coords, added,
       point, polygon, inside, store0, err, runs >>

\* lines 154-155: json.load
TerrainMainLoad ==
    /\ pc = "idle"
    /\ provinces' = store
    /\ visited' = 0
    /\ pc' = "terrain_loop"
    /\ UNCHANGED << terrainRest, store, rng, tables >>

\* lines 164-167: a placeholder gets what assign_terrain returns
TerrainReclassify ==
    /\ pc = "terrain_loop"
    /\ visited < Len(provinces)
    /\ IsPlaceholder(provinces[visited + 1])
    /\ provinces' = [provinces EXCEPT ![visited + 1] =
                        SetTerrain(@, assign_terrain(@, rng))]
    /\ tables' = TablesAfterCall(tables, provinces[visited + 1])
    /\ rng' = RngNext(rng)
    /\ visited' = visited + 1
    /\ UNCHANGED << terrainRest, store, pc >>

\* lines 168-169: any other record is left as it is
TerrainKeep ==
    /\ pc = "terrain_loop"
    /\ visited < Len(provinces)
    /\ ~IsPlaceholder(provinces[visited + 1])
    /\ visited' = visited + 1
    /\ UNCHANGED << terrainRest, store, provinces, rng, tables, pc >>

\* lines 173-175: json.dump
TerrainMainWrite ==
    /\ pc = "terrain_loop"
    /\ visited = Len(provinces)
    /\ store' = provinces
    /\ pc' = "terrain_done"
    /\ UNCHANGED << terrainRest, provinces, visited, rng, tables >>

NextTerrain ==
    \/ TerrainMainLoad
    \/ TerrainReclassify
    \/ TerrainKeep
    \/ TerrainMainWrite

SpecTerrain == InitTerrain /\ [][NextTerrain]_vars

(***************************************************************************)
(* generate_unsettled.main (lines 268-298): the candidates of the list are *)
(* appended to the store unless their id or their (x, y) is there already. *)
(***************************************************************************)
START_X == 2000
START_Y == 2000

make_province(idx, id_suffix, name, lat, lng, continent, region, population, wealth, trade_goods, culture, religion, terrain_type) ==
    [ id |-> "unsettled_" \o id_suffix,
      name |-> name,
      x |-> START_X + idx,
      y |-> START_Y,
      continent |-> continent,
      region |-> region,
      population |-> population,
      wealth |-> wealth,
      trade_goods |-> trade_goods,
      owner_culture |-> culture,
      owner_religion |-> religion,
      settlement_tier |-> "unsettled",
      development_progress |-> 0,
      months_at_tier |-> 0,
      development_invested |-> 0,
      lat |-> lat,
      lng |-> lng,
      terrain_type |-> terrain_type ]

\* three entries of the list, the last with a terrain of its own
UNSETTLED_PROVINCES ==
    << << "scotland_highlands", "Scottish Highlands", 5750000, -450000, "europe",
          "british_isles", 700, 55, <<"wool", "timber">>, "English", "Protestant" >>,
       << "scotland_interior", "Scottish Interior", 5650000, -400000, "europe",
          "british_isles", 900, 65, <<"wool", "grain">>, "English", "Protestant" >>,
       << "madagascar_interior", "Madagascar Interior", -1900000, 4650000, "africa",
          "madagascar", 700, 50, <<"spices", "timber">>, "Malagasy", "Animist",
          "island" >> >>

build_provinces ==
    [ k \in 1..Len(UNSETTLED_PROVINCES) |->
        LET entry == UNSETTLED_PROVINCES[k]
        IN  make_province(k - 1, entry[1], entry[2], entry[3], entry[4], entry[5],
                          entry[6], entry[7], entry[8], entry[9], entry[10], entry[11],
                          IF Len(entry) = 11 THEN "land" ELSE entry[12]) ]

\* records of the store: one with the id of the first candidate, one on the
\* (x, y) of the second, one without x and y
UnsSameId == [id |-> "unsettled_scotland_highlands", x |-> 5, y |-> 5, name |-> "Highlands"]
UnsSameCoord == [id |-> "ulster", x |-> START_X + 1, y |-> START_Y, name |-> "Ulster"]
UnsNoCoord == [id |-> "legacy", name |-> "Legacy"]
UnsettledRecords == { RecB, UnsSameId, UnsSameCoord, UnsNoCoord, build_provinces[3] }
RECURSIVE UnsettledStores(_)
UnsettledStores(n) ==
    IF n = 0 THEN { << >> }
    ELSE UnsettledStores(n - 1) \cup
         { Append(st, p) : st \in { t \in UnsettledStores(n - 1) : Len(t) = n - 1 },
                           p \in UnsettledRecords }

InitUnsettled ==
    /\ AtRest
    /\ store \in UnsettledStores(MaxRecords)
    /\ store0 = store
    /\ runs = 0
    /\ pc = "idle"
    /\ err = "none"
    /\ provinces = << >>
    /\ existing_ids = {}
    /\ existing_coords = {}
    /\ added = << >>
    /\ visited = 0
    /\ rng = Seed
    /\ tables = ModuleTables
    /\ new_provinces = << >>
    /\ existing_axial = {}
    /\ point = <<0, 0>>
    /\ polygon = << >>
    /\ inside = FALSE

unsettledRest ==
    << rest, rng, tables, existing_axial, point, polygon, inside, store0 >>

\* lines 272-273 subscript 'id', 'x' and 'y' of every record
LacksKey(list) ==
    \E k \in 1..Len(list) : {"id", "x", "y"} \ DOMAIN list[k] # {}

\* lines 269-275: load the store, collect what it holds, build the candidates
UnsettledLoad ==
    /\ pc \in {"idle", "unsettled_done"}
    /\ runs < MaxRuns
    /\ ~LacksKey(store)
    /\ runs' = runs + 1
    /\ provinces' = store
    /\ existing_ids' = { store[k].id : k \in 1..Len(store) }
    /\ existing_coords' = { <<store[k].x, store[k].y>> : k \in 1..Len(store) }
    /\ new_provinces' = build_provinces
    /\ added' = << >>
    /\ visited' = 0
    /\ pc' = "unsettled_loop"
    /\ UNCHANGED << unsettledRest, store, err >>

UnsettledKeyError ==
    /\ pc \in {"idle", "unsettled_done"}
    /\ runs < MaxRuns
    /\ LacksKey(store)
    /\ runs' = runs + 1
    /\ provinces' = store
    /\ pc' = "raised"
    /\ err' = "KeyError"
    /\ UNCHANGED << unsettledRest, store, existing_ids, existing_coords, new_provinces,
                    added, visited >>

IdSeenNever(p, ids) == FALSE
IdSeen(p, ids) == p.id \in ids
CoordSeen(p, coords) == <<p.x, p.y>> \in coords

\* lines 281-283
UnsettledSkipId ==
    /\ pc = "unsettled_loop"
    /\ visited < Len(new_provinces)
    /\ IdSeen(new_provinces[visited + 1], existing_ids)
    /\ visited' = visited + 1
    /\ UNCHANGED << unsettledRest, store, err, runs, provinces, existing_ids,
                    existing_coords, new_provinces, added, pc >>

\* lines 284-286
UnsettledSkipCoord ==
    /\ pc = "unsettled_loop"
    /\ visited < Len(new_provinces)
    /\ ~IdSeen(new_provinces[visited + 1], existing_ids)
    /\ CoordSeen(new_provinces[visited + 1], existing_coords)
    /\ visited' = visited + 1
    /\ UNCHANGED << unsettledRest, store, err, runs, provinces, existing_ids,
                    existing_coords, new_provinces, added, pc >>

\* lines 287-290
UnsettledAppend ==
    /\ pc = "unsettled_loop"
    /\ visited < Len(new_provinces)
    /\ LET p == new_provinces[visited + 1]
       IN  /\ ~IdSeen(p, existing_ids)
           /\ ~CoordSeen(p, existing_coords)
           /\ provinces' = Append(provinces, p)
           /\ existing_ids' = existing_ids \cup {p.id}
           /\ existing_coords' = existing_coords \cup {<<p.x, p.y>>}
           /\ added' = Append(added, p.id)
    /\ visited' = visited + 1
    /\ UNCHANGED << unsettledRest, store, err, runs, new_provinces, pc >>

\* lines 292-293: json.dump
UnsettledWrite ==
    /\ pc = "unsettled_loop"
    /\ visited = Len(new_provinces)
    /\ store' = provinces
    /\ pc' = "unsettled_done"
    /\ UNCHANGED << unsettledRest, err, runs, provinces, existing_ids, existing_coords,
                    new_provinces, added, visited >>

NextUnsettled ==
    \/ UnsettledLoad
    \/ UnsettledKeyError
    \/ UnsettledSkipId
    \/ UnsettledSkipCoord
    \/ UnsettledAppend
    \/ UnsettledWrite

SpecUnsettled == InitUnsettled /\ [][NextUnsettled]_vars

(***************************************************************************)
(* Properties.                                                             *)
(***************************************************************************)
Ended_ == pc \in {"returned", "raised"}
NewIdx == 1..Len(new_provinces)
Axial(p) == <<p.x, p.y>>
IdsDistinct(list) ==
    \A i, j \in 1..Len(list) : i # j => list[i].id # list[j].id
BadRecord(p) == p.terrain_type = "land" \/ p.trade_goods = << >>
BadBatch == \E k \in NewIdx : BadRecord(new_provinces[k])
GridSize ==
    (Range.col_max - Range.col_min + 1) * (Range.row_max - Range.row_min + 1)
CellLatLng(cell) == pixel_to_lat_lng(HexCentre(cell[1], cell[2])[1], HexCentre(cell[1], cell[2])[2])
\* the cells the loaded records with a geographic coordinate snap to
ExistingCells ==
    { lat_lng_to_col_row(provinces[k].lat, provinces[k].lng) :
        k \in {i \in 1..Len(provinces) :
                  "lat" \in DOMAIN provinces[i] /\ "lng" \in DOMAIN provinces[i]} }

\* C1: no two records generated in a run share an axial (x,y), and none has
\* the (x,y) of a record of the loaded, post-removal list.
C1_AxialUnique ==
    /\ \A i, j \in NewIdx :
          i # j => Axial(new_provinces[i]) # Axial(new_provinces[j])
    /\ \A i \in NewIdx : \A k \in 1..Len(provinces) :
          Axial(new_provinces[i]) # Axial(provinces[k])

\* C2: after a non-dry run that returned, on a store whose ids were pairwise
\* distinct, the ids of the written store are pairwise distinct.
C2_IdsUnique ==
    (pc = "returned" /\ ~dry_run /\ IdsDistinct(store0)) => IdsDistinct(store)

\* C3: every record of a returned batch, and so every record merged into the
\* store, has a terrain type other than 'land' and at least one trade good.
C3_ReturnedBatchValid ==
    pc = "returned" =>
        /\ \A k \in NewIdx : ~BadRecord(new_provinces[k])
        /\ ~dry_run => \A k \in (Len(provinces) + 1)..Len(store) : ~BadRecord(store[k])
C3_Witness ==
    /\ pc = "returned" /\ ~dry_run
    /\ Len(new_provinces) >= 2
    /\ Len(store) = Len(provinces) + Len(new_provinces)

\* C4: a batch with a 'land' record or a record without trade goods makes the
\* call raise, the validator raising only once the loop is over, and leaves
\* the file as it was when the call started, removals included.
C4_ValidatorAborts ==
    /\ (Ended_ /\ BadBatch) => (pc = "raised" /\ store = store0)
    /\ (pc = "raised" /\ err \in {"generic_terrain", "no_goods"}) =>
          (BadBatch /\ visited = GridSize /\ store = store0)
C4_Witness ==
    /\ pc = "raised" /\ err = "no_goods"
    /\ remove_ids # << >>
    /\ Len(provinces) < Len(store)

InputErrors == {"store", "boundary", "bbox", "county"}
LacksBoxKey(entry) ==
    {"lat_min", "lat_max", "lng_min", "lng_max"} \ DOMAIN entry # {}
SubRegionDefect ==
    \E k \in 1..Len(country_config.sub_regions) :
        LacksBoxKey(country_config.sub_regions[k])
CountyDefect ==
    \E k \in 1..Len(country_config.county_map) :
        LacksBoxKey(country_config.county_map[k])

\* C5, as claimed: an input or configuration error (malformed boundary, a
\* bounding-box key missing from the search box, the sub-region table or the
\* county table, an unreadable store) aborts the call before any grid cell is
\* taken up or any record assembled, and leaves the file untouched.
C5_AbortsBeforeGeneration ==
    /\ (pc = "raised" /\ err \in InputErrors) =>
          (visited = 0 /\ new_provinces = << >> /\ store = store0)
    /\ (Ended_ /\ (SubRegionDefect \/ CountyDefect)) => pc = "raised"

\* C5, amended: an unreadable store, a malformed boundary document and a
\* search box lacking a key abort the call before any grid cell is taken up;
\* a county entry lacking a key aborts it only inside the loop, at an
\* accepted cell whose lookup reads the missing key, possibly after records
\* were assembled; a sub-region entry lacking a key raises nothing.  Every
\* such abort leaves the file untouched.
C5_InputErrors ==
    /\ (pc = "raised" /\ err \in {"store", "boundary", "bbox"}) =>
          (visited = 0 /\ new_provinces = << >> /\ store = store0)
    /\ (pc = "raised" /\ err = "county") =>
          (visited >= 1 /\ CountyDefect /\ store = store0)
    /\ (Ended_ /\ (BoundaryMalformed(boundary_geojson) \/ BboxMissing(country_config))) =>
          (pc = "raised" /\ err \in {"store", "boundary", "bbox"})
    /\ (pc = "raised" /\ SubRegionDefect /\ ~CountyDefect
           /\ ~BoundaryMalformed(boundary_geojson) /\ ~BboxMissing(country_config)) =>
          err \in {"store", "generic_terrain", "no_goods"}
C5_Witness ==
    /\ pc = "raised" /\ err = "county"
    /\ Len(new_provinces) >= 1
    /\ remove_ids # << >> /\ Len(provinces) < Len(store)

\* C6, as claimed: without the terrain assigner every call raises and writes
\* nothing.
C6_EveryRunRejected ==
    (~hasAssigner /\ Ended_) => (pc = "raised" /\ store = store0)

\* C6, amended: without the terrain assigner every new record is assembled
\* with terrain 'land', and every call that has generated at least one record
\* raises and writes nothing; the validator raises only for a batch that is
\* not empty.
C6_RejectedWhenNonEmpty ==
    ~hasAssigner =>
        /\ \A k \in NewIdx : new_provinces[k].terrain_type = "land"
        /\ (Ended_ /\ new_provinces # << >>) => (pc = "raised" /\ store = store0)
        /\ (pc = "raised" /\ err = "generic_terrain") => new_provinces # << >>
C6_Witness ==
    /\ ~hasAssigner
    /\ pc = "raised" /\ err = "generic_terrain"
    /\ Len(new_provinces) >= 2

\* two ended calls were given the same arguments and found the same file
SameInput(a, b) ==
    /\ a.err # "store" /\ b.err # "store"
    /\ a.remove_ids = b.remove_ids
    /\ a.store0 = b.store0
WithoutTerrain(out) == [k \in 1..Len(out) |-> [out[k] EXCEPT !.terrain_type = ""]]

\* C7, as claimed: two calls of one process (whose generator is seeded once,
\* at import) on the same input return the same records.
C7_SameOutput ==
    \A i, j \in 1..Len(history) :
        (i < j /\ SameInput(history[i], history[j])) =>
            history[i].out = history[j].out

\* C7, amended: two calls of one process on the same input assemble and
\* return records that agree, in order, in every field but terrain_type, and
\* end the same way; they agree in terrain_type too when the generator is in
\* the same state at both calls.
C7_SameOutputUpToTerrain ==
    \A i, j \in 1..Len(history) :
        (i < j /\ SameInput(history[i], history[j])) =>
            /\ WithoutTerrain(history[i].batch) = WithoutTerrain(history[j].batch)
            /\ WithoutTerrain(history[i].out) = WithoutTerrain(history[j].out)
            /\ history[i].err = history[j].err
            /\ history[i].rng0 = history[j].rng0 =>
                  /\ history[i].batch = history[j].batch
                  /\ history[i].dry_run = history[j].dry_run =>
                        history[i].stored = history[j].stored
C7_Witness ==
    \E i, j \in 1..Len(history) :
        /\ i < j /\ SameInput(history[i], history[j])
        /\ history[i].err = "none" /\ history[j].err = "none"
        /\ Len(history[i].out) >= 2
        /\ history[i].out # history[j].out

\* C8: no new record lies on the cell of a loaded record that has both lat
\* and lng, no cell yields two records, and the occupied set holds those
\* cells and the new ones only.
C8_Occupancy ==
    /\ \A i \in NewIdx :
          /\ new_cells[i] \notin ExistingCells
          /\ new_provinces[i].id =
                ProvinceId(country_config.id_prefix, new_cells[i][1], new_cells[i][2])
    /\ \A i, j \in NewIdx : i # j => new_cells[i] # new_cells[j]
    /\ pc \in {"cells", "validate", "returned"} =>
          occupied = ExistingCells \cup {new_cells[i] : i \in NewIdx}
C8_Witness ==
    /\ pc = "returned"
    /\ Len(new_provinces) >= 2
    /\ ExistingCells # {}
    /\ \E k \in 1..Len(provinces) : "lat" \notin DOMAIN provinces[k]
    /\ \E c \in ExistingCells : c[1] = 1 /\ c[2] = 0

\* C9: the hex centre of every cell of the iterated range, odd and negative
\* columns included, maps back to the cell through pixel_to_lat_lng and
\* lat_lng_to_col_row.
C9_RoundTrip ==
    pc = "cells" => lat_lng_to_col_row(LatLng[1], LatLng[2]) = <<col, row>>
C9_Witness ==
    /\ pc = "cells"
    /\ col < 0 /\ col % 2 = 1 /\ row % 2 = 1
    /\ visited > 0

\* C10: the hex centre of every new record is accepted by the boundary
\* classifier and is the coordinate the record stores, rounded; under the
\* boundary covering latitude 0-1, longitude 0-1 every stored coordinate
\* lies within [0,1] x [0,1].
C10_Containment ==
    /\ \A i \in NewIdx :
          /\ point_in_polygon(boundary_geojson, hasShapely,
                              CellLatLng(new_cells[i])[2], CellLatLng(new_cells[i])[1])
          /\ new_provinces[i].lat = Round4(CellLatLng(new_cells[i])[1])
          /\ new_provinces[i].lng = Round4(CellLatLng(new_cells[i])[2])
    /\ boundary_geojson = UnitBoundary =>
          \A i \in NewIdx :
              /\ 0 <= new_provinces[i].lat /\ new_provinces[i].lat <= 100000
              /\ 0 <= new_provinces[i].lng /\ new_provinces[i].lng <= 100000
C10_Witness ==
    /\ boundary_geojson = UnitBoundary
    /\ country_config.bbox = UnitBbox
    /\ pc = "returned"
    /\ Len(new_provinces) >= 20

\* the vertices of every ring of the boundary document
RingsOf(gj) ==
    LET geom == GeometryOf(gj)
    IN  IF geom.type = "MultiPolygon"
        THEN UNION { { geom.coordinates[k][h] : h \in 1..Len(geom.coordinates[k]) } :
                       k \in 1..Len(geom.coordinates) }
        ELSE { geom.coordinates[h] : h \in 1..Len(geom.coordinates) }
VerticesOf(gj) == UNION { { ring[v] : v \in 1..Len(ring) } : ring \in RingsOf(gj) }
\* a side of the search box separates it from every vertex of the boundary
BoxOutside(bbox, gj) ==
    \/ \A v \in VerticesOf(gj) : v[1] > bbox.lng_max
    \/ \A v \in VerticesOf(gj) : v[1] < bbox.lng_min
    \/ \A v \in VerticesOf(gj) : v[2] > bbox.lat_max
    \/ \A v \in VerticesOf(gj) : v[2] < bbox.lat_min
WellFormedInput == ~BoundaryMalformed(boundary_geojson) /\ ~BboxMissing(country_config)
\* no cell of the iterated range has its centre inside the boundary
NoCellInside ==
    \A c \in Range.col_min..Range.col_max, r \in Range.row_min..Range.row_max :
        ~point_in_polygon(boundary_geojson, hasShapely,
                          CellLatLng(<<c, r>>)[2], CellLatLng(<<c, r>>)[1])

\* C11, as claimed: a search box that lies entirely outside the boundary
\* polygon yields no record; the margin around the box adds none.
C11_ZeroOutsideBox ==
    (WellFormedInput /\ BoxOutside(country_config.bbox, boundary_geojson)) =>
        new_provinces = << >>

\* C11, amended: a call yields no record when no cell of the iterated range,
\* the search box widened by its margin, has its centre inside the boundary,
\* as for a box farther from the polygon than the margin; a record's cell
\* always lies in that range.
C11_ZeroOutsideGrid ==
    WellFormedInput =>
        /\ NoCellInside => new_provinces = << >>
        /\ \A i \in NewIdx :
              /\ new_cells[i][1] \in Range.col_min..Range.col_max
              /\ new_cells[i][2] \in Range.row_min..Range.row_max
C11_Witness ==
    /\ pc = "returned"
    /\ BoxOutside(country_config.bbox, boundary_geojson)
    /\ NoCellInside
    /\ visited = GridSize
    /\ new_provinces = << >>

\* the positions of the records of list that rm does not name, and the
\* records at those positions, in the order of list
KeptIdx(list, rm) ==
    { k \in 1..Len(list) : \A i \in 1..Len(rm) : rm[i] # list[k].id }
NthKept(list, rm, j) ==
    CHOOSE k \in KeptIdx(list, rm) :
        Cardinality({ m \in KeptIdx(list, rm) : m <= k }) = j
Kept(list, rm) ==
    [ j \in 1..Cardinality(KeptIdx(list, rm)) |-> list[NthKept(list, rm, j)] ]
Loaded == runs >= 1 /\ err # "store"

\* C12: the list the call works on, after removal and before generation,
\* holds exactly the records of the file whose id is not in remove_ids, in
\* the file's order and unmodified; an empty removal list leaves it as read.
C12_Removal ==
    Loaded =>
        /\ provinces = Kept(store0, remove_ids)
        /\ remove_ids = << >> => provinces = store0
C12_Witness ==
    /\ pc = "cells" /\ new_provinces = << >>
    /\ remove_ids # << >>
    /\ Len(store0) = 4 /\ Len(provinces) = 2
    /\ provinces[1] = store0[1] /\ provinces[2] = store0[3]

\* the point lies in the entry's box, its four sides included; a bound the
\* entry does not give is the world's
InBoxInclusive(e, lat, lng) ==
    /\ (IF "lat_min" \in DOMAIN e THEN e.lat_min ELSE -9000000) <= lat
    /\ lat <= (IF "lat_max" \in DOMAIN e THEN e.lat_max ELSE 9000000)
    /\ (IF "lng_min" \in DOMAIN e THEN e.lng_min ELSE -18000000) <= lng
    /\ lng <= (IF "lng_max" \in DOMAIN e THEN e.lng_max ELSE 18000000)
\* the position of the first entry of the table that holds the point, the
\* last position if none does
FirstSubRegion(table, lat, lng) ==
    LET m == { k \in 1..Len(table) : InBoxInclusive(table[k], lat, lng) }
    IN  IF m = {} THEN Len(table) ELSE CHOOSE k \in m : \A j \in m : k <= j
SubRegionOfNew(i) ==
    country_config.sub_regions[
        FirstSubRegion(country_config.sub_regions,
                       CellLatLng(new_cells[i])[1], CellLatLng(new_cells[i])[2])]

\* C13: a record carries the payload of the first sub-region entry, in table
\* order, whose box (sides included) holds its point, whatever later entries
\* hold it too, and the payload of the last entry if no box holds it.
C13_FirstMatch ==
    \A i \in NewIdx :
        /\ new_provinces[i].owner_culture = SubRegionOfNew(i).culture
        /\ new_provinces[i].owner_religion = SubRegionOfNew(i).religion
        /\ new_provinces[i].trade_goods = SubRegionOfNew(i).trade_goods
C13_Witness ==
    /\ pc = "returned"
    /\ country_config.sub_regions = SubRegionsNested
    /\ Len(new_provinces) = 3
    /\ new_provinces[1].owner_culture = "English"
    /\ InBoxInclusive(SubRegionsNested[2], CellLatLng(new_cells[1])[1],
                      CellLatLng(new_cells[1])[2])
    /\ new_provinces[2].owner_culture = "English"
    /\ CellLatLng(new_cells[2])[1] = SubRegionsNested[1].lat_min
    /\ new_provinces[3].owner_culture = "Irish"
    /\ ~InBoxInclusive(SubRegionsNested[3], CellLatLng(new_cells[3])[1],
                       CellLatLng(new_cells[3])[2])

\* the county entry gives its four bounds and the point lies within them
InCounty(c, lat, lng) ==
    /\ {"lat_min", "lat_max", "lng_min", "lng_max"} \subseteq DOMAIN c
    /\ c.lat_min <= lat /\ lat <= c.lat_max
    /\ c.lng_min <= lng /\ lng <= c.lng_max
\* the name the i-th new record resolves to: that of the first entry of the
\* county table holding its point, "Unknown" if none does
CountyOfNew(i) ==
    LET t == country_config.county_map
        m == { k \in 1..Len(t) : InCounty(t[k], CellLatLng(new_cells[i])[1],
                                          CellLatLng(new_cells[i])[2]) }
    IN  IF m = {} THEN "Unknown" ELSE t[CHOOSE k \in m : \A j \in m : k <= j].name
\* how many records up to the i-th resolved to the name of the i-th
RankOfNew(i) == Cardinality({ j \in 1..i : CountyOfNew(j) = CountyOfNew(i) })

\* C14: the k-th record of a run, in generation order, that resolves to a
\* county name is called by that name when k = 1 and "{name} {k}" when k > 1;
\* the name is that of the first county entry holding the point, or "Unknown".
C14_CountyNames ==
    \A i \in NewIdx :
        new_provinces[i].name =
            IF RankOfNew(i) = 1 THEN CountyOfNew(i)
            ELSE CountyOfNew(i) \o " " \o ToString(RankOfNew(i))
C14_Witness ==
    /\ pc = "returned"
    /\ \E i, j, k \in NewIdx :
          /\ new_provinces[i].name = "Unknown"
          /\ new_provinces[j].name = "Kerry"
          /\ new_provinces[k].name = "Cork 2"

\* C15: every call starts with an empty county counter, so the first record
\* of a call that resolves to a name carries the bare name, whatever the
\* calls before it generated, and the counter counts the call's own records.
C15_CounterPerRun ==
    /\ (pc = "cells" /\ new_provinces = << >>) => county_counts = << >>
    /\ pc \in {"cells", "validate"} =>
          /\ DOMAIN county_counts = { CountyOfNew(i) : i \in NewIdx }
          /\ \A i \in NewIdx :
                county_counts[CountyOfNew(i)] =
                    Cardinality({ j \in NewIdx : CountyOfNew(j) = CountyOfNew(i) })
    /\ \A i \in NewIdx :
          (\A j \in 1..(i - 1) : CountyOfNew(j) # CountyOfNew(i)) =>
              new_provinces[i].name = CountyOfNew(i)
C15_Witness ==
    /\ runs = 2 /\ Len(history) = 1
    /\ \E k \in 1..Len(history[1].batch) : history[1].batch[k].name = "Cork 2"
    /\ pc = "cells"
    /\ \E i \in NewIdx : new_provinces[i].name = "Cork"
    /\ "Cork" \in DOMAIN county_counts /\ county_counts["Cork"] = 1

IsMultiPolygon ==
    WellFormedInput /\ GeometryOf(boundary_geojson).type = "MultiPolygon"
\* the point lies inside the outer ring of a member polygon
InSomeOuterRing(gj, lng, lat) ==
    \E k \in 1..Len(GeometryOf(gj).coordinates) :
        _ray_cast(<<lng, lat>>, GeometryOf(gj).coordinates[k][1])

\* C16: under a MultiPolygon boundary the classifier accepts a point exactly
\* when it lies inside the outer ring of a member polygon, the holes of the
\* members ignored, and the classifier built on shapely and the one built on
\* _ray_cast give the same answer.
C16_OuterRingsOnly ==
    (IsMultiPolygon /\ pc = "cells") =>
        /\ Accepted <=> InSomeOuterRing(boundary_geojson, LatLng[2], LatLng[1])
        /\ point_in_polygon(boundary_geojson, TRUE, LatLng[2], LatLng[1]) <=>
              point_in_polygon(boundary_geojson, FALSE, LatLng[2], LatLng[1])

\* two ended calls on the same input, one dry and one not
DryAndNot(a, b) == SameInput(a, b) /\ a.dry_run # b.dry_run

\* C17, as claimed: a dry run never writes the file, and returns the list
\* the non-dry run on the same input returns.
C17_DryRunSameList ==
    /\ (Ended_ /\ dry_run) => store = store0
    /\ \A i, j \in 1..Len(history) :
          DryAndNot(history[i], history[j]) => history[i].out = history[j].out

\* C17, amended: a dry run never writes the file, neither new records nor
\* removals; the list it returns agrees with that of the non-dry run on the
\* same input in every field but terrain_type, and in terrain_type too when
\* the generator is in the same state at the start of both.
C17_DryRunFrame ==
    /\ dry_run => store = store0
    /\ \A i \in 1..Len(history) : history[i].dry_run => history[i].stored = history[i].store0
    /\ \A i, j \in 1..Len(history) :
          DryAndNot(history[i], history[j]) =>
              /\ WithoutTerrain(history[i].out) = WithoutTerrain(history[j].out)
              /\ history[i].rng0 = history[j].rng0 => history[i].out = history[j].out
C17_Witness ==
    /\ Len(history) = 2
    /\ DryAndNot(history[1], history[2])
    /\ history[1].dry_run /\ history[1].err = "none" /\ history[2].err = "none"
    /\ history[1].remove_ids # << >>
    /\ Len(history[1].out) >= 2
    /\ Len(history[1].stored) < Len(history[2].stored)

\* C18: a non-dry call that returns leaves in the file the records that
\* survived removal, unmodified and in their order, followed by the new
\* records in generation order; the file changes only in the step that
\* follows both guards.
C18_MergedStore ==
    /\ (pc = "returned" /\ ~dry_run) =>
          /\ store = Kept(store0, remove_ids) \o new_provinces
          /\ ~BadBatch
    /\ (runs >= 1 /\ pc # "returned") => store = store0
C18_Witness ==
    /\ pc = "returned" /\ ~dry_run
    /\ remove_ids # << >>
    /\ Len(Kept(store0, remove_ids)) = 2 /\ Len(store0) = 4
    /\ Len(new_provinces) >= 2
    /\ store # store0

RowMajorBefore(a, b) == a[2] < b[2] \/ (a[2] = b[2] /\ a[1] < b[1])
ColumnMajorBefore(a, b) == a[1] < b[1] \/ (a[1] = b[1] /\ a[2] < b[2])

\* C19, as claimed: the new records appear in row-major order of their cells.
C19_RowMajor ==
    \A i, j \in NewIdx : i < j => RowMajorBefore(new_cells[i], new_cells[j])

\* C19, amended: the cells are visited, and the new records appear, in
\* column-major order: by column, and by row within a column.
C19_ColumnMajor ==
    /\ \A i, j \in NewIdx : i < j => ColumnMajorBefore(new_cells[i], new_cells[j])
    /\ pc = "cells" =>
          \A i \in NewIdx : ColumnMajorBefore(new_cells[i], <<col, row>>)
C19_Witness ==
    /\ pc = "returned"
    /\ \E i, j \in NewIdx :
          /\ i < j
          /\ new_cells[i][1] < new_cells[j][1]
          /\ new_cells[i][2] > new_cells[j][2]

\* the (q,r) computed for the cell of the i-th new record, and the pairs in
\* use when it was assembled: those of the loaded records and of the new
\* records before it
ComputedAxial(i) ==
    pixel_to_axial(HexCentre(new_cells[i][1], new_cells[i][2])[1],
                   HexCentre(new_cells[i][1], new_cells[i][2])[2])
UsedBefore(i) ==
    { Axial(provinces[k]) : k \in 1..Len(provinces) } \cup
    { Axial(new_provinces[j]) : j \in 1..(i - 1) }
Shifted(qr) == <<qr[1] + 1, qr[2]>>

\* C20: a record whose computed (q,r) is in use is stored with (q+1,r),
\* whether or not (q+1,r) is in use itself, and any other record with its
\* (q,r); the stored pair joins the pairs in use.
C20_SingleShift ==
    /\ \A i \in NewIdx :
          Axial(new_provinces[i]) =
              IF ComputedAxial(i) \in UsedBefore(i) THEN Shifted(ComputedAxial(i))
              ELSE ComputedAxial(i)
    /\ pc \in {"cells", "validate", "returned"} =>
          existing_axial = UsedBefore(Len(new_provinces) + 1)
C20_Witness ==
    /\ pc = "returned"
    /\ \E i, j \in NewIdx :
          /\ ComputedAxial(i) \in UsedBefore(i)
          /\ Shifted(ComputedAxial(i)) \in UsedBefore(i)
          /\ Axial(new_provinces[i]) = Shifted(ComputedAxial(i))
          /\ ComputedAxial(j) \notin UsedBefore(j)
          /\ Axial(new_provinces[j]) = ComputedAxial(j)

\* the cells around the iterated range, two cells beyond it on every side
CellsAround ==
    { <<c, r>> : c \in (Range.col_min - 2)..(Range.col_max + 2),
                 r \in (Range.row_min - 2)..(Range.row_max + 2) }
InRange(cell) ==
    /\ cell[1] \in Range.col_min..Range.col_max
    /\ cell[2] \in Range.row_min..Range.row_max
\* the centre of the cell lies in the search box
CentreInBox(cell) ==
    InBoxInclusive(country_config.bbox, CellLatLng(cell)[1], CellLatLng(cell)[2])
\* the cell is free, on the canvas and inside the boundary
Eligible(cell) ==
    /\ cell \notin ExistingCells
    /\ ~OutOfWorld(HexCentre(cell[1], cell[2])[1], HexCentre(cell[1], cell[2])[2])
    /\ point_in_polygon(boundary_geojson, hasShapely,
                        CellLatLng(cell)[2], CellLatLng(cell)[1])

\* C21: every cell whose hex centre lies in the search box is in the
\* iterated range, and once the loop is over every such cell that is free,
\* on the canvas and inside the boundary has yielded exactly one record.
C21_GridCoversBox ==
    (WellFormedInput /\ runs >= 1 /\ err # "store") =>
        /\ \A cell \in CellsAround : CentreInBox(cell) => InRange(cell)
        /\ (pc \in {"validate", "returned"} \/ err \in {"generic_terrain", "no_goods"}) =>
              \A cell \in CellsAround :
                  (CentreInBox(cell) /\ Eligible(cell)) =>
                      Cardinality({ i \in NewIdx : new_cells[i] = cell }) = 1
C21_Witness ==
    /\ pc = "returned"
    /\ \E cell \in CellsAround :
          /\ CentreInBox(cell) /\ Eligible(cell)
          /\ cell[1] = Range.col_max - 1
    /\ \E cell \in CellsAround : CentreInBox(cell) /\ ~Eligible(cell)

\* the grid cells and the axial pairs of the records of a list
CellsOf(list) ==
    { lat_lng_to_col_row(list[k].lat, list[k].lng) :
        k \in { i \in 1..Len(list) : {"lat", "lng"} \subseteq DOMAIN list[i] } }
AxialOf(list) == { <<list[k].x, list[k].y>> : k \in 1..Len(list) }
\* the records of the file that the call removed
Removed == SelectRecords(store0, (1..Len(store0)) \ KeptIdx(store0, remove_ids))

Generated(list) == { k \in 1..Len(list) : "owner_culture" \in DOMAIN list[k] }
\* call b was made with the arguments of call a on the file a had written
RerunOf(a, b) ==
    /\ a.err = "none" /\ ~a.dry_run
    /\ b.err # "store"
    /\ b.store0 = a.stored
    /\ b.remove_ids = a.remove_ids

\* C26: a call made again on the file a non-dry call has written, with the
\* same arguments, generates nothing, because the rounded coordinate a
\* record stores maps back to the cell the record came from; and no two
\* generated records of the file lie on the same cell.
C26_Idempotent ==
    /\ \A i, j \in 1..Len(history) :
          (i < j /\ RerunOf(history[i], history[j])) => history[j].batch = << >>
    /\ \A i \in NewIdx :
          lat_lng_to_col_row(new_provinces[i].lat, new_provinces[i].lng) = new_cells[i]
    /\ \A i, j \in Generated(store) :
          i # j => lat_lng_to_col_row(store[i].lat, store[i].lng) #
                   lat_lng_to_col_row(store[j].lat, store[j].lng)
C26_Witness ==
    /\ Len(history) = 2
    /\ RerunOf(history[1], history[2])
    /\ Len(history[1].out) >= 2
    /\ history[2].err = "none" /\ ~history[2].dry_run
    /\ history[2].stored = history[1].stored

\* the (q,r) pixel_to_axial computes for the hex centre of a cell
AxialOfCell(cell) ==
    pixel_to_axial(HexCentre(cell[1], cell[2])[1], HexCentre(cell[1], cell[2])[2])

\* C27: the hex centre of a cell (col,row) has q = col and
\* r = row - floor(col / 2), so distinct cells compute distinct pairs.
C27_AxialOfCell ==
    (WellFormedInput /\ pc = "cells") =>
        /\ pixel_to_axial(Centre[1], Centre[2]) = <<col, row - Floor(col, 2)>>
        /\ \A c \in Range.col_min..Range.col_max, r \in Range.row_min..Range.row_max :
              <<c, r>> # <<col, row>> =>
                  AxialOfCell(<<c, r>>) # pixel_to_axial(Centre[1], Centre[2])
C27_Witness ==
    /\ pc = "cells"
    /\ col < 0 /\ col % 2 = 1 /\ row = Range.row_max
    /\ pixel_to_axial(Centre[1], Centre[2])[2] = row + 1

\* the edges of a ring, the closing one included: edge k runs from the
\* vertex before vertex k to vertex k
EdgeFrom(ring, k) == ring[IF k = 1 THEN Len(ring) ELSE k - 1]
Straddles(y, a, b) == (a[2] > y) # (b[2] > y)
\* the edge's line meets the horizontal through the point strictly right of x
CrossesRightOf(x, y, a, b) ==
    IF b[2] > a[2]
    THEN (x - a[1]) * (b[2] - a[2]) < (b[1] - a[1]) * (y - a[2])
    ELSE (x - a[1]) * (b[2] - a[2]) > (b[1] - a[1]) * (y - a[2])
CrossingEdges(pt, ring) ==
    { k \in 1..Len(ring) :
        /\ Straddles(pt[2], EdgeFrom(ring, k), ring[k])
        /\ CrossesRightOf(pt[1], pt[2], EdgeFrom(ring, k), ring[k]) }
StrictlyInRect(pt) == 0 < pt[1] /\ pt[1] < 4 /\ 0 < pt[2] /\ pt[2] < 2
StrictlyOutOfRect(pt) == pt[1] < 0 \/ pt[1] > 4 \/ pt[2] < 0 \/ pt[2] > 2

\* C22: _ray_cast returns true exactly when an odd number of the ring's
\* edges, the closing edge included, straddle the point's y and cross the
\* horizontal through the point strictly right of x; for a rectangle it is
\* true strictly inside and false strictly outside, closed ring or not.
C22_EvenOdd ==
    pc = "returned" =>
        /\ inside <=> Cardinality(CrossingEdges(point, polygon)) % 2 = 1
        /\ polygon \in {RectRing, RectRingClosed} =>
              /\ StrictlyInRect(point) => inside
              /\ StrictlyOutOfRect(point) => ~inside
C22_Witness ==
    /\ pc = "returned"
    /\ polygon = NotchRing
    /\ Cardinality(CrossingEdges(point, polygon)) = 3
    /\ inside

\* C29: _ray_cast never divides by zero, whatever the point and the ring:
\* the quotient is formed only for an edge whose ends lie on either side of
\* the point's y.
C29_NoZeroDivision ==
    /\ err # "ZeroDivisionError"
    /\ \A k \in 1..Len(polygon) :
          Straddles(point[2], EdgeFrom(polygon, k), polygon[k]) =>
              polygon[k][2] # EdgeFrom(polygon, k)[2]
C29_Witness ==
    /\ pc = "returned"
    /\ polygon = RectRingClosed
    /\ \E k \in 1..Len(polygon) :
          /\ polygon[k][2] = EdgeFrom(polygon, k)[2]
          /\ polygon[k][2] = point[2]
          /\ polygon[k][1] # EdgeFrom(polygon, k)[1]
    /\ polygon[1] = polygon[Len(polygon)]

\* C24: assign_terrain_types.main changes only the terrain_type of the
\* records whose terrain_type is 'land' or missing: every other record and
\* every other field, and the number and order of the records, are as they
\* were, and afterwards no record of the store has terrain_type 'land'.
C24_OnlyPlaceholdersChange ==
    /\ pc \in {"idle", "terrain_loop"} => store = store0
    /\ pc = "terrain_done" =>
          /\ Len(store) = Len(store0)
          /\ \A k \in 1..Len(store0) :
                /\ Get(store[k], "terrain_type", "land") # "land"
                /\ IF Get(store0[k], "terrain_type", "land") = "land"
                   THEN /\ DOMAIN store[k] = DOMAIN store0[k] \cup {"terrain_type"}
                        /\ \A f \in DOMAIN store0[k] \ {"terrain_type"} :
                              store[k][f] = store0[k][f]
                   ELSE store[k] = store0[k]
C24_Witness ==
    /\ pc = "terrain_done"
    /\ Len(store0) = 2
    /\ store0[1] = TerHills
    /\ store0[2] = TerCity
    /\ store[1] = TerHills
    /\ store[2] # TerCity

\* C30: assign_terrain leaves REGION_TERRAIN, CONTINENT_TERRAIN and
\* DEFAULT_TERRAIN as they were: the farmlands boost goes to a per-call
\* copy, so after any number of calls each table holds its initial weights.
C30_TablesUnchanged ==
    /\ tables = ModuleTables
    /\ \A k \in 1..Len(tables.REGION_TERRAIN["british_isles"]) :
          tables.REGION_TERRAIN["british_isles"][k][1] = "farmlands" =>
              tables.REGION_TERRAIN["british_isles"][k][2] = 30
C30_Witness ==
    /\ pc = "terrain_done"
    /\ store0 = << TerVillage, TerVillage >>
    /\ \A k \in 1..2 : store[k]["terrain_type"] # "land"

\* the table assign_terrain selects for a record: the region's if the region
\* is listed, otherwise the continent's, otherwise the default one
SelectedTable(province) ==
    IF Get(province, "region", "") \in DOMAIN REGION_TERRAIN
    THEN REGION_TERRAIN[province.region]
    ELSE IF Get(province, "continent", "") \in DOMAIN CONTINENT_TERRAIN
         THEN CONTINENT_TERRAIN[province.continent]
    ELSE DEFAULT_TERRAIN
TerrainKeys(weights) == { weights[k][1] : k \in 1..Len(weights) }

\* C28: assign_terrain returns a key of the table it selects, never the
\* placeholder 'land'; so when the terrain assigner is available the check
\* for placeholder terrain never fails.
C28_NeverPlaceholder ==
    hasAssigner =>
        /\ err # "generic_terrain"
        /\ \A k \in NewIdx :
              /\ new_provinces[k].terrain_type \in TerrainKeys(SelectedTable(new_provinces[k]))
              /\ new_provinces[k].terrain_type # "land"
C28_Witness ==
    /\ hasAssigner
    /\ pc = "returned"
    /\ country_config = BareConfig
    /\ Len(new_provinces) >= 2
    /\ \A k \in NewIdx : new_provinces[k].terrain_type \in TerrainKeys(DEFAULT_TERRAIN)

CoordsDistinct(list) ==
    \A i, j \in 1..Len(list) :
        i # j /\ {"x", "y"} \subseteq DOMAIN list[i] /\ {"x", "y"} \subseteq DOMAIN list[j]
            => Axial(list[i]) # Axial(list[j])

\* C25: generate_unsettled.main appends a candidate only if neither its id
\* nor its (x, y) is that of a record of the store or of a candidate appended
\* before it, and changes no record of the store; so ids and (x, y) pairs
\* that were unique stay unique, and a second run appends nothing.
C25_AppendsOnlyUnseen ==
    /\ Len(store0) <= Len(store)
    /\ \A k \in 1..Len(store0) : store[k] = store0[k]
    /\ pc = "unsettled_loop" =>
          /\ Len(store) <= Len(provinces)
          /\ \A k \in 1..Len(store) : provinces[k] = store[k]
          /\ Len(provinces) = Len(store) + Len(added)
          /\ \A k \in (Len(store) + 1)..Len(provinces) :
                /\ \E c \in 1..visited : provinces[k] = new_provinces[c]
                /\ \A j \in 1..(k - 1) :
                      /\ provinces[j].id # provinces[k].id
                      /\ Axial(provinces[j]) # Axial(provinces[k])
    /\ IdsDistinct(store0) /\ CoordsDistinct(store0) =>
          IdsDistinct(store) /\ CoordsDistinct(store)
    /\ runs >= 2 => added = << >>
C25_Witness ==
    /\ pc = "unsettled_done"
    /\ runs = 2
    /\ store0 = << UnsSameId, UnsSameCoord >>
    /\ Len(store) = 3
    /\ store[3] = build_provinces[3]
    /\ added = << >>

=============================================================================
